---- MODULE Spec2Model ----
(***************************************************************************)
(* A model of the k8s-backup export tool (src/main.go): the sanitizer      *)
(* CleanResource, the Secret eligibility filter ShouldBackupSecret, the    *)
(* text normalizer processStringMapValues and the traversal loop of main.  *)
(*                                                                         *)
(* A Go value of type interface{} is a record with a tag: "str" (string),  *)
(* "num" (number, its digits in s), "map" (map[string]interface{}, its     *)
(* entries in m), "list" ([]interface{}, its elements in l) and "nil".     *)
(* A type assertion v.(map[string]interface{}) is the test v.tag = "map".  *)
(* CleanResource mutates the nested maps of its argument in place; the     *)
(* model computes the value the returned map holds after the call.         *)
(***************************************************************************)
EXTENDS Naturals, Sequences, FiniteSets, TLC

VARIABLES
  step,        \* position of the harness that applies a pure function
  obj,         \* the object handed to CleanResource / ShouldBackupSecret
  cleaned,     \* CleanResource(obj)
  recleaned,   \* CleanResource(CleanResource(obj))
  document,    \* the map main marshals for the cleaned object
  verdict,     \* ShouldBackupSecret(obj)
  payload,     \* the map handed to processStringMapValues
  processed,   \* processStringMapValues(payload)
  flags,       \* main: the parsed command line
  pc,          \* main: where the run is
  targetNamespaces, \* main: the namespaces to visit
  nsIdx,       \* main: position of the loop over targetNamespaces
  kindIdx,     \* main: position of the loop over resourceTypes
  resources,   \* main: the items of the current (scope, kind) pair
  objIdx,      \* main: position of the loop over resources
  backupCount, \* main: files written for the current pair
  totalResources, \* main: files written so far
  dirs,        \* the directories that exist under the output directory
  files,       \* the files that exist, each with the document it holds
  out          \* the calls made and lines printed by the last step

fnVars == <<step, obj, cleaned, recleaned, document, verdict, payload, processed>>

runVars ==
  <<flags, pc, targetNamespaces, nsIdx, kindIdx, resources, objIdx, backupCount,
    totalResources, dirs, files, out>>

vars == <<fnVars, runVars>>

---------------------------------------------------------------------------
(* Values *)

NoMap == [k \in {} |-> ""]

Nil == [tag |-> "nil", s |-> "", m |-> NoMap, l |-> << >>]

Str(s) == [tag |-> "str", s |-> s, m |-> NoMap, l |-> << >>]

Num(s) == [tag |-> "num", s |-> s, m |-> NoMap, l |-> << >>]

Map(f) == [tag |-> "map", s |-> "", m |-> f, l |-> << >>]

List(q) == [tag |-> "list", s |-> "", m |-> NoMap, l |-> q]

\* The map holding the key/value pairs of a set of pairs with distinct keys.
MapOf(pairs) ==
  [k \in {p[1] : p \in pairs} |-> (CHOOSE p \in pairs : p[1] = k)[2]]

Has(f, k) == k \in DOMAIN f

\* delete(f, k)
Delete(f, k) == [j \in DOMAIN f \ {k} |-> f[j]]

DeleteAll(f, ks) == [j \in DOMAIN f \ ks |-> f[j]]

\* f[k] = v
Put(f, k, v) == [j \in DOMAIN f \cup {k} |-> IF j = k THEN v ELSE f[j]]

\* f[k], nil when the key is absent
Get(f, k) == IF Has(f, k) THEN f[k] ELSE Nil

\* m, ok := f[k].(map[string]interface{}); ok
IsMapAt(f, k) == Has(f, k) /\ f[k].tag = "map"

\* s, _ := f[k].(string): the empty string when f[k] is not a string
StringAt(f, k) == IF Has(f, k) /\ f[k].tag = "str" THEN f[k].s ELSE ""

\* no file at all
NoFiles == [p \in {} |-> Nil]

\* the run is not part of a specification that applies one pure function
RunIdle ==
  /\ flags = Nil
  /\ pc = "idle"
  /\ targetNamespaces = << >>
  /\ nsIdx = 1
  /\ kindIdx = 1
  /\ resources = << >>
  /\ objIdx = 1
  /\ backupCount = 0
  /\ totalResources = 0
  /\ dirs = {}
  /\ files = NoFiles
  /\ out = << >>

\* the pure-function harness is not part of the specification of the run
FnIdle ==
  /\ step = "idle"
  /\ obj = Nil
  /\ cleaned = Nil
  /\ recleaned = Nil
  /\ document = Nil
  /\ verdict = FALSE
  /\ payload = Nil
  /\ processed = Nil

---------------------------------------------------------------------------
(* CleanResource, src/main.go *)

ServerFields ==
  {"creationTimestamp", "resourceVersion", "selfLink", "uid", "managedFields",
   "generation"}

NoisyAnnotations ==
  {"kubectl.kubernetes.io/last-applied-configuration",
   "deployment.kubernetes.io/revision"}

\* A slip: the emptiness test runs before the noisy keys are deleted.
CleanAnnotationsTestFirst(metadata) ==
  IF IsMapAt(metadata, "annotations")
    THEN IF DOMAIN metadata["annotations"].m = {}
           THEN Delete(metadata, "annotations")
           ELSE Put(metadata, "annotations",
                    Map(DeleteAll(metadata["annotations"].m, NoisyAnnotations)))
    ELSE metadata

\* A slip: the map is left in place when it becomes empty.
CleanAnnotationsKeepEmpty(metadata) ==
  IF IsMapAt(metadata, "annotations")
    THEN Put(metadata, "annotations",
             Map(DeleteAll(metadata["annotations"].m, NoisyAnnotations)))
    ELSE metadata

\* main.go 167-176
CleanAnnotations(metadata) ==
  IF IsMapAt(metadata, "annotations")
    THEN LET annotations == DeleteAll(metadata["annotations"].m, NoisyAnnotations)
         IN  IF DOMAIN annotations = {}
               THEN Delete(metadata, "annotations")
               ELSE Put(metadata, "annotations", Map(annotations))
    ELSE metadata

\* main.go 178-185: one turn of the loop over "labels", "finalizers"
DropIfEmptyMap(metadata, field) ==
  IF IsMapAt(metadata, field) /\ DOMAIN metadata[field].m = {}
    THEN Delete(metadata, field)
    ELSE metadata

\* main.go 156-186
CleanMetadata(res) ==
  IF IsMapAt(res, "metadata")
    THEN LET m1 == DeleteAll(res["metadata"].m, ServerFields)
             m2 == CleanAnnotations(m1)
             m3 == DropIfEmptyMap(DropIfEmptyMap(m2, "labels"), "finalizers")
         IN  Put(res, "metadata", Map(m3))
    ELSE res

\* A slip: the key is misspelt, nothing is deleted.
RemoveStatusMisspelt(res) == Delete(res, "Status")

\* main.go 188-189
RemoveStatus(res) == Delete(res, "status")

\* delete the fields from res["spec"] when it is a map
DeleteFromSpec(res, fields) ==
  IF IsMapAt(res, "spec")
    THEN Put(res, "spec", Map(DeleteAll(res["spec"].m, fields)))
    ELSE res

\* main.go 191-223
CleanKind(res) ==
  LET kind == StringAt(res, "kind")
  IN  CASE kind = "Service" ->
             DeleteFromSpec(res, {"clusterIP", "clusterIPs", "ipFamilies",
                                  "ipFamilyPolicy"})
        [] kind = "Deployment" ->
             DeleteFromSpec(res, {"progressDeadlineSeconds",
                                  "revisionHistoryLimit", "replicas"})
        [] kind = "StatefulSet" ->
             DeleteFromSpec(res, {"revisionHistoryLimit", "replicas"})
        [] kind = "PersistentVolume" ->
             DeleteFromSpec(res, {"claimRef"})
        [] kind = "Pod" -> Delete(res, "spec")
        [] OTHER -> res

\* main.go 146-226
CleanResource(resource) ==
  IF resource.tag = "nil"
    THEN Nil
    ELSE Map(CleanKind(RemoveStatus(CleanMetadata(resource.m))))

---------------------------------------------------------------------------
(* ShouldBackupSecret, src/main.go *)

\* strings.Contains(s, sub)
Contains(s, sub) ==
  \E i \in 1..(Len(s) + 1) :
    i + Len(sub) - 1 <= Len(s) /\ SubSeq(s, i, i + Len(sub) - 1) = sub

\* strings.HasPrefix(s, prefix)
HasPrefix(s, prefix) ==
  Len(prefix) <= Len(s) /\ SubSeq(s, 1, Len(prefix)) = prefix

\* corev1.SecretTypeDockerConfigJson, SecretTypeServiceAccountToken,
\* SecretTypeBasicAuth, SecretTypeTLS and the Helm release type
excludedTypes ==
  {"kubernetes.io/dockerconfigjson", "kubernetes.io/service-account-token",
   "kubernetes.io/basic-auth", "kubernetes.io/tls", "helm.sh/release.v1"}

\* A slip: the "-token-" test is left out.
SystemNameNoTokenInfix(name) ==
  Contains(name, "default-token") \/ HasPrefix(name, "sh.helm.release.v1.")

\* main.go 237-242
SystemName(name) ==
  \/ Contains(name, "default-token")
  \/ HasPrefix(name, "sh.helm.release.v1.")
  \/ Contains(name, "-token-")

\* main.go 229-259
ShouldBackupSecret(secretObj) ==
  IF ~IsMapAt(secretObj.m, "metadata")
    THEN FALSE
    ELSE LET name == StringAt(secretObj.m["metadata"].m, "name")
             secretType == StringAt(secretObj.m, "type")
         IN  IF SystemName(name)
               THEN FALSE
               ELSE secretType \notin excludedTypes

---------------------------------------------------------------------------
(* processStringMapValues, src/main.go *)

CR == "\r"

LF == "\n"

TAB == "\t"

BACKSLASH == "\\"

\* U+00A0, the non-breaking space
NBSP == " "

\* strings.ReplaceAll(s, old, new) for a non-empty old: the non-overlapping
\* occurrences of old, found from the left, are replaced
RECURSIVE ReplaceAll(_, _, _)
ReplaceAll(s, old, new) ==
  IF Len(s) < Len(old)
    THEN s
    ELSE IF SubSeq(s, 1, Len(old)) = old
           THEN new \o ReplaceAll(SubSeq(s, Len(old) + 1, Len(s)), old, new)
           ELSE SubSeq(s, 1, 1) \o ReplaceAll(SubSeq(s, 2, Len(s)), old, new)

\* A slip: the tab escape is not decoded.
NormalizeStringNoTab(val) ==
  LET s1 == ReplaceAll(val, CR \o LF, LF)
      s2 == ReplaceAll(s1, BACKSLASH \o "n", LF)
      s4 == ReplaceAll(s2, BACKSLASH \o "r", CR)
  IN  ReplaceAll(s4, NBSP, " ")

\* main.go 270-275
NormalizeString(val) ==
  LET s1 == ReplaceAll(val, CR \o LF, LF)
      s2 == ReplaceAll(s1, BACKSLASH \o "n", LF)
      s3 == ReplaceAll(s2, BACKSLASH \o "t", TAB)
      s4 == ReplaceAll(s3, BACKSLASH \o "r", CR)
  IN  ReplaceAll(s4, NBSP, " ")

\* main.go 262-284; m is a map value or nil
RECURSIVE processStringMapValues(_)
processStringMapValues(m) ==
  IF m.tag = "nil"
    THEN Nil
    ELSE Map([k \in DOMAIN m.m |->
                CASE m.m[k].tag = "str" -> Str(NormalizeString(m.m[k].s))
                  [] m.m[k].tag = "map" -> processStringMapValues(m.m[k])
                  [] OTHER -> m.m[k]])

---------------------------------------------------------------------------
(* The document main marshals for one object, src/main.go *)

\* main.go 550-558: copy the key when the cleaned object has it
CopyIfPresent(doc, o, k) == IF Has(o, k) THEN Put(doc, k, o[k]) ELSE doc

\* main.go 542-565: the per-namespace pass; o is the map CleanResource returned
ResourceYAML(o, resType) ==
  LET base == MapOf({<<"apiVersion", Get(o, "apiVersion")>>,
                     <<"kind", Get(o, "kind")>>,
                     <<"metadata", Get(o, "metadata")>>})
      core == CopyIfPresent(CopyIfPresent(CopyIfPresent(base, o, "spec"),
                                          o, "data"), o, "rules")
  IN  IF resType = "configmaps" /\ IsMapAt(core, "data")
        THEN Put(core, "data", processStringMapValues(core["data"]))
        ELSE core

\* main.go 636-644: the cluster-scope pass
GlobalResourceYAML(o) ==
  CopyIfPresent(MapOf({<<"apiVersion", Get(o, "apiVersion")>>,
                       <<"kind", Get(o, "kind")>>,
                       <<"metadata", Get(o, "metadata")>>}), o, "spec")

---------------------------------------------------------------------------
(* The kind registry, src/main.go 34-143 *)

ResourceInfo(kind, group, version, resource, namespaced) ==
  [Kind |-> kind, Group |-> group, Version |-> version, Resource |-> resource,
   Namespaced |-> namespaced]

resourceMap ==
  [resType \in {"configmaps", "deployments", "secrets", "services",
                "persistentvolumeclaims", "statefulsets",
                "horizontalpodautoscalers", "cronjobs", "jobs",
                "persistentvolumes", "serviceaccounts", "ingresses"} |->
     CASE resType = "configmaps" -> ResourceInfo("ConfigMap", "", "v1", "configmaps", TRUE)
       [] resType = "deployments" -> ResourceInfo("Deployment", "apps", "v1", "deployments", TRUE)
       [] resType = "secrets" -> ResourceInfo("Secret", "", "v1", "secrets", TRUE)
       [] resType = "services" -> ResourceInfo("Service", "", "v1", "services", TRUE)
       [] resType = "persistentvolumeclaims" ->
            ResourceInfo("PersistentVolumeClaim", "", "v1", "persistentvolumeclaims", TRUE)
       [] resType = "statefulsets" ->
            ResourceInfo("StatefulSet", "apps", "v1", "statefulsets", TRUE)
       [] resType = "horizontalpodautoscalers" ->
            ResourceInfo("HorizontalPodAutoscaler", "autoscaling", "v2",
                         "horizontalpodautoscalers", TRUE)
       [] resType = "cronjobs" -> ResourceInfo("CronJob", "batch", "v1", "cronjobs", TRUE)
       [] resType = "jobs" -> ResourceInfo("Job", "batch", "v1", "jobs", TRUE)
       [] resType = "persistentvolumes" ->
            ResourceInfo("PersistentVolume", "", "v1", "persistentvolumes", FALSE)
       [] resType = "serviceaccounts" ->
            ResourceInfo("ServiceAccount", "", "v1", "serviceaccounts", TRUE)
       [] resType = "ingresses" ->
            ResourceInfo("Ingress", "networking.k8s.io", "v1", "ingresses", TRUE)]

---------------------------------------------------------------------------
(* The objects CleanResource is applied to *)

\* the longest spec.ports list of a Service
MaxPorts == 2

LastApplied == "kubectl.kubernetes.io/last-applied-configuration"

Revision == "deployment.kubernetes.io/revision"

\* Each option is a set of key/value pairs; an object is the union of one
\* option per axis.
ServerOpts ==
  {{},
   {<<"uid", Str("7f3c")>>, <<"resourceVersion", Str("1042")>>,
    <<"generation", Num("2")>>, <<"creationTimestamp", Str("2024-01-01T00:00:00Z")>>,
    <<"selfLink", Str("/api/v1/x")>>, <<"managedFields", List(<<Map(NoMap)>>)>>}}

AnnotationOpts ==
  {{}, {<<"annotations", Str("not-a-map")>>}}
    \cup {{<<"annotations", Map([k \in ks |-> Str("v")])>>} :
            ks \in SUBSET {LastApplied, Revision, "note"}}

LabelOpts ==
  {{},
   {<<"labels", Map(NoMap)>>},
   {<<"labels", Map("app" :> Str("web"))>>},
   {<<"finalizers", Map(NoMap)>>},
   {<<"finalizers", List(<<Str("kubernetes")>>)>>},
   {<<"labels", Map(NoMap)>>, <<"finalizers", Map(NoMap)>>}}

MetadataOpts ==
  {{}, {<<"metadata", Str("not-a-map")>>}}
    \cup {{<<"metadata", Map(MapOf({<<"name", Str("api")>>} \cup sv \cup an \cup lb))>>} :
            sv \in ServerOpts, an \in AnnotationOpts, lb \in LabelOpts}

StatusOpts ==
  {{}, {<<"status", Map("replicas" :> Num("3"))>>}}

PortEntries ==
  {Map("port" :> Num("80")),
   Map(("port" :> Num("443")) @@ ("nodePort" :> Num("30443")))}

PortsOpts ==
  {{}} \cup {{<<"ports", List(q)>>} :
               q \in UNION {[1..n -> PortEntries] : n \in 0..MaxPorts}}

ServiceTypeOpts ==
  {{}} \cup {{<<"type", Str(t)>>} : t \in {"ClusterIP", "NodePort", "LoadBalancer"}}

ServiceSpecs ==
  {Map(MapOf({<<"clusterIP", Str("10.0.0.7")>>,
              <<"clusterIPs", List(<<Str("10.0.0.7")>>)>>,
              <<"externalTrafficPolicy", Str("Local")>>} \cup ty \cup po)) :
     ty \in ServiceTypeOpts, po \in PortsOpts}

PodTemplate ==
  Map(("metadata" :> Map(("creationTimestamp" :> Nil)
                           @@ ("labels" :> Map("app" :> Str("web")))))
        @@ ("spec" :> Map("containers" :> List(<<Map("name" :> Str("c"))>>))))

Selector == Map("matchLabels" :> Map("app" :> Str("web")))

WorkloadSpecs ==
  {Map(("selector" :> Selector) @@ ("template" :> PodTemplate)),
   Map(("selector" :> Selector) @@ ("template" :> PodTemplate)
         @@ ("replicas" :> Num("3")) @@ ("revisionHistoryLimit" :> Num("10"))
         @@ ("progressDeadlineSeconds" :> Num("600")))}

WithKind(kind, entries) == {<<"kind", Str(kind)>>} \cup entries

KindOpts ==
  {WithKind("Service", {<<"spec", sp>>}) : sp \in ServiceSpecs}
    \cup {WithKind("Service", {}), WithKind("Service", {<<"spec", Str("not-a-map")>>})}
    \cup {WithKind(k, {<<"spec", sp>>}) :
            k \in {"Deployment", "StatefulSet"}, sp \in WorkloadSpecs}
    \cup {WithKind("PersistentVolume",
                   {<<"spec", Map(("capacity" :> Str("1Gi"))
                                    @@ ("claimRef" :> Map("name" :> Str("data"))))>>}),
          WithKind("PersistentVolume", {<<"spec", Map("capacity" :> Str("1Gi"))>>}),
          WithKind("PersistentVolumeClaim",
                   {<<"spec", Map(("volumeName" :> Str("pvc-7f3c"))
                                    @@ ("storageClassName" :> Str("fast")))>>}),
          WithKind("PersistentVolumeClaim",
                   {<<"spec", Map("storageClassName" :> Str("fast"))>>}),
          WithKind("Pod", {<<"spec", Map("nodeName" :> Str("n1"))>>}),
          WithKind("ServiceAccount", {<<"secrets", List(<<Map("name" :> Str("api-token-x"))>>)>>}),
          WithKind("Secret", {<<"type", Str("Opaque")>>,
                              <<"data", Map("password" :> Str("cGFzcw=="))>>,
                              <<"stringData", Map("user" :> Str("admin"))>>}),
          WithKind("ConfigMap", {<<"data", Map("app.conf" :> Str("a=1\r\nb=2\\nc=3"))>>,
                                 <<"binaryData", Map("blob" :> Str("AA=="))>>}),
          WithKind("CronJob",
                   {<<"spec", Map("jobTemplate" :>
                                    Map("spec" :> Map("template" :> PodTemplate)))>>}),
          WithKind("Job", {<<"spec", Map("template" :> PodTemplate)>>}),
          {<<"spec", Map("replicas" :> Num("3"))>>},
          {<<"kind", Num("7")>>, <<"spec", Map("replicas" :> Num("3"))>>}}

Objects ==
  {Nil} \cup
  {Map(MapOf({<<"apiVersion", Str("v1")>>} \cup md \cup st \cup kd)) :
     md \in MetadataOpts, st \in StatusOpts, kd \in KindOpts}

---------------------------------------------------------------------------
(* The sanitizer applied to one object: clean, clean again, marshal *)

InitClean ==
  /\ step = "start"
  /\ obj \in Objects
  /\ cleaned = Nil
  /\ recleaned = Nil
  /\ document = Nil
  /\ verdict = FALSE
  /\ payload = Nil
  /\ processed = Nil
  /\ RunIdle

\* obj = CleanResource(obj), main.go 540
Clean ==
  /\ step = "start"
  /\ cleaned' = CleanResource(obj)
  /\ step' = "cleaned"
  /\ UNCHANGED <<obj, recleaned, document, verdict, payload, processed, runVars>>

CleanAgain ==
  /\ step = "cleaned"
  /\ recleaned' = CleanResource(cleaned)
  /\ step' = "recleaned"
  /\ UNCHANGED <<obj, cleaned, document, verdict, payload, processed, runVars>>

\* main.go 542-567 and 636-646: the document of an object listed under resType
BuildYAML ==
  /\ step = "cleaned"
  /\ cleaned.tag = "map"
  /\ \E resType \in DOMAIN resourceMap :
       /\ resourceMap[resType].Kind = StringAt(cleaned.m, "kind")
       /\ document' = IF resourceMap[resType].Namespaced
                        THEN Map(ResourceYAML(cleaned.m, resType))
                        ELSE Map(GlobalResourceYAML(cleaned.m))
  /\ step' = "document"
  /\ UNCHANGED <<obj, cleaned, recleaned, verdict, payload, processed, runVars>>

NextClean == Clean \/ CleanAgain \/ BuildYAML

SpecClean == InitClean /\ [][NextClean]_vars

---------------------------------------------------------------------------
(* The eligibility filter applied to one Secret *)

\* the most parts a Secret name is put together from
MaxNameParts == 3

NameParts == {"default", "-token", "-", "sh.helm.release.v1.", "app", "s"}

RECURSIVE Names(_)
Names(n) ==
  IF n = 0
    THEN {""}
    ELSE LET shorter == Names(n - 1)
         IN  shorter \cup {a \o b : a \in shorter, b \in NameParts}

SecretTypeOpts ==
  {{}, {<<"type", Num("7")>>}}
    \cup {{<<"type", Str(t)>>} :
            t \in excludedTypes \cup {"Opaque", "example.com/api-key",
                                      "kubernetes.io/dockercfg"}}

SecretMetadataOpts ==
  {{}, {<<"metadata", Str("not-a-map")>>},
   {<<"metadata", Map("namespace" :> Str("prod"))>>},
   {<<"metadata", Map("name" :> Num("7"))>>}}
    \cup {{<<"metadata", Map(("name" :> Str(nm)) @@ ("namespace" :> Str("prod")))>>} :
            nm \in Names(MaxNameParts)}

Secrets ==
  {Map(MapOf({<<"apiVersion", Str("v1")>>, <<"kind", Str("Secret")>>} \cup md \cup ty)) :
     md \in SecretMetadataOpts, ty \in SecretTypeOpts}

InitSecret ==
  /\ step = "start"
  /\ obj \in Secrets
  /\ cleaned = Nil
  /\ recleaned = Nil
  /\ document = Nil
  /\ verdict = FALSE
  /\ payload = Nil
  /\ processed = Nil
  /\ RunIdle

\* ShouldBackupSecret(r.Object), main.go 529
Filter ==
  /\ step = "start"
  /\ verdict' = ShouldBackupSecret(obj)
  /\ step' = "filtered"
  /\ UNCHANGED <<obj, cleaned, recleaned, document, payload, processed, runVars>>

NextSecret == Filter

SpecSecret == InitSecret /\ [][NextSecret]_vars

---------------------------------------------------------------------------
(* The text normalizer applied to one payload map *)

\* the longest payload string
MaxTextLen == 4

TextAlphabet == {CR, LF, BACKSLASH, "n", "r", "t", NBSP}

RECURSIVE Texts(_)
Texts(n) ==
  IF n = 0
    THEN {""}
    ELSE LET shorter == Texts(n - 1)
         IN  shorter \cup {a \o b : a \in shorter, b \in TextAlphabet}

\* a string entry, a nested map with a string entry, and a number
Payloads ==
  {Map(("key" :> Str(t)) @@ ("nested" :> Map("inner" :> Str(t)))
         @@ ("count" :> Num("1"))) : t \in Texts(MaxTextLen)}

InitText ==
  /\ step = "start"
  /\ payload \in Payloads
  /\ processed = Nil
  /\ obj = Nil
  /\ cleaned = Nil
  /\ recleaned = Nil
  /\ document = Nil
  /\ verdict = FALSE
  /\ RunIdle

\* processStringMapValues(data), main.go 563
Process ==
  /\ step = "start"
  /\ processed' = processStringMapValues(payload)
  /\ step' = "processed"
  /\ UNCHANGED <<obj, cleaned, recleaned, document, verdict, payload, runVars>>

NextText == Process

SpecText == InitText /\ [][NextText]_vars

---------------------------------------------------------------------------
(* Properties of the sanitizer, checked under SpecClean *)

\* C1: CleanResource is idempotent: cleaning the cleaned object again gives
\* the cleaned object, for every object of the universe (nil included).
C1_CleanIdempotent == step = "recleaned" => recleaned = cleaned

\* An object with a status and a metadata map that holds only noisy
\* annotations has been cleaned twice, and the first cleaning changed it.
C1_Witness ==
  /\ step = "recleaned"
  /\ obj.tag = "map"
  /\ Has(obj.m, "status")
  /\ IsMapAt(obj.m, "metadata")
  /\ IsMapAt(obj.m["metadata"].m, "annotations")
  /\ DOMAIN obj.m["metadata"].m["annotations"].m = {LastApplied}
  /\ cleaned # obj

\* C2: for a non-nil object of any kind the cleaned object has no top-level
\* "status" key, and neither has the document built from it for its file.
C2_NoStatus ==
  (step # "start" /\ obj.tag = "map") =>
    /\ cleaned.tag = "map"
    /\ ~Has(cleaned.m, "status")
    /\ (step = "document" => ~Has(document.m, "status"))

\* The document of an object that came with a status has been built.
C2_Witness ==
  /\ step = "document"
  /\ Has(obj.m, "status")
  /\ DOMAIN document.m # {}

\* the annotations of obj's metadata that are not the two noisy keys
RemainingAnnotations ==
  LET annotations == obj.m["metadata"].m["annotations"].m
  IN  [k \in DOMAIN annotations \ {LastApplied, Revision} |-> annotations[k]]

\* C3: when the object's metadata holds an annotation map, the cleaned
\* metadata has no "annotations" key if nothing but the noisy keys was in the
\* map (or the map was empty), and otherwise holds exactly the remaining
\* entries; it never holds an empty annotation map.
C3_NoEmptyAnnotations ==
  (step = "cleaned" /\ obj.tag = "map" /\ IsMapAt(obj.m, "metadata")) =>
    /\ IsMapAt(cleaned.m, "metadata")
    /\ IsMapAt(obj.m["metadata"].m, "annotations") =>
         IF DOMAIN RemainingAnnotations = {}
           THEN ~Has(cleaned.m["metadata"].m, "annotations")
           ELSE /\ Has(cleaned.m["metadata"].m, "annotations")
                /\ cleaned.m["metadata"].m["annotations"] = Map(RemainingAnnotations)
    /\ Get(cleaned.m["metadata"].m, "annotations") # Map(NoMap)

\* Both noisy keys and nothing else were in the map, and the key is gone.
C3_Witness ==
  /\ step = "cleaned"
  /\ obj.tag = "map"
  /\ IsMapAt(obj.m, "metadata")
  /\ IsMapAt(obj.m["metadata"].m, "annotations")
  /\ DOMAIN obj.m["metadata"].m["annotations"].m = {LastApplied, Revision}
  /\ ~Has(cleaned.m["metadata"].m, "annotations")

\* the port entries of a Service object value that are maps
PortMaps(o) ==
  IF IsMapAt(o.m, "spec") /\ Has(o.m["spec"].m, "ports")
       /\ o.m["spec"].m["ports"].tag = "list"
    THEN LET ports == o.m["spec"].m["ports"].l
         IN  [i \in {j \in 1..Len(ports) : ports[j].tag = "map"} |-> ports[i].m]
    ELSE << >>

\* C4: a Service whose spec.type is not NodePort and that has a port entry
\* with a nodePort comes out with no nodePort in any port entry; a Service
\* of type NodePort keeps every nodePort with its value.
C4_NodePortPolicy ==
  (step = "cleaned" /\ obj.tag = "map" /\ StringAt(obj.m, "kind") = "Service"
     /\ IsMapAt(obj.m, "spec")) =>
    LET before == PortMaps(obj)
        after == PortMaps(cleaned)
    IN  IF StringAt(obj.m["spec"].m, "type") = "NodePort"
          THEN \A i \in DOMAIN before :
                 Has(before[i], "nodePort") =>
                   /\ i \in DOMAIN after
                   /\ Has(after[i], "nodePort")
                   /\ after[i]["nodePort"] = before[i]["nodePort"]
          ELSE (\E i \in DOMAIN before : Has(before[i], "nodePort")) =>
                 \A i \in DOMAIN after : ~Has(after[i], "nodePort")

---------------------------------------------------------------------------
(* Properties of the eligibility filter, checked under SpecSecret *)

\* what the filter reads: the name and the type, "" when absent or no string
SecretName == StringAt(Get(obj.m, "metadata").m, "name")

SecretType == StringAt(obj.m, "type")

\* the Secrets the filter is to reject: a service-account-token name, a Helm
\* release name, or one of the five system types
SystemSecret ==
  \/ Contains(SecretName, "default-token")
  \/ Contains(SecretName, "-token-")
  \/ HasPrefix(SecretName, "sh.helm.release.v1.")
  \/ SecretType \in {"kubernetes.io/service-account-token",
                     "kubernetes.io/dockerconfigjson", "kubernetes.io/basic-auth",
                     "kubernetes.io/tls", "helm.sh/release.v1"}

\* C5 as stated: false for every system Secret, true for every other Secret.
C5_FilterAsStated == step = "filtered" => (verdict <=> ~SystemSecret)

\* C5, amended: false for every Secret whose metadata is not a map and for
\* every system Secret, true for every other Secret.
C5_Filter ==
  step = "filtered" =>
    (verdict <=> (IsMapAt(obj.m, "metadata") /\ ~SystemSecret))

\* An opaque Secret with an ordinary name has been accepted.
C5_Witness ==
  /\ step = "filtered"
  /\ SecretName = "app-s"
  /\ SecretType = "Opaque"
  /\ verdict

---------------------------------------------------------------------------
(* Properties of the text normalizer, checked under SpecText *)

\* the string values of the processed payload, at both depths
ProcessedStrings == {processed.m["key"].s, processed.m["nested"].m["inner"].s}

NoEscapeLeft(s) ==
  /\ ~Contains(s, BACKSLASH \o "n")
  /\ ~Contains(s, BACKSLASH \o "r")
  /\ ~Contains(s, BACKSLASH \o "t")

\* C6 as stated: no CR and no literal backslash-n, -r, -t in any result.
C6_TextAsStated ==
  step = "processed" =>
    \A s \in ProcessedStrings : ~Contains(s, CR) /\ NoEscapeLeft(s)

\* every CR of s is the first half of a CRLF pair
OnlyCRLF(s) ==
  \A i \in 1..Len(s) :
    SubSeq(s, i, i) = CR => (i < Len(s) /\ SubSeq(s, i + 1, i + 1) = LF)

\* C6, amended: no literal backslash-n, -r, -t is left in any result, and
\* the result has no CR when the input has no literal backslash-r and no CR
\* outside a CRLF pair (a literal backslash-r is decoded to a CR, and a lone
\* CR is kept).
C6_Text ==
  step = "processed" =>
    /\ processed.tag = "map"
    /\ DOMAIN processed.m = DOMAIN payload.m
    /\ processed.m["count"] = payload.m["count"]
    /\ \A s \in ProcessedStrings : NoEscapeLeft(s)
    /\ LET in == payload.m["key"].s
       IN  (OnlyCRLF(in) /\ ~Contains(in, BACKSLASH \o "r")) =>
             \A s \in ProcessedStrings : ~Contains(s, CR)

\* A CRLF pair and a literal backslash-n have both become LF.
C6_Witness ==
  /\ step = "processed"
  /\ payload.m["key"].s = CR \o LF \o BACKSLASH \o "n"
  /\ processed.m["key"].s = LF \o LF
  /\ processed.m["nested"].m["inner"].s = LF \o LF

---------------------------------------------------------------------------
(* The cluster and the command lines of the run *)

\* the longest explicit --type list
MaxKinds == 2

\* the run's timestamped output directory, main.go 373-374
backupRoot == "k8s-backup-20240101-000000"

\* filepath.Join(dir, name)
Join(dir, name) == Append(dir, name)

\* what the namespace enumeration returns when it succeeds
ClusterNamespaces == <<"dev", "kube-system", "prod">>

ObjectMeta(name, namespace) ==
  Map(("name" :> Str(name)) @@ ("uid" :> Str("7f3c"))
        @@ ("resourceVersion" :> Str("1042"))
        @@ (IF namespace = "" THEN NoMap ELSE "namespace" :> Str(namespace)))

SecretObject(name, namespace, type) ==
  Map(("apiVersion" :> Str("v1")) @@ ("kind" :> Str("Secret"))
        @@ ("metadata" :> ObjectMeta(name, namespace))
        @@ ("type" :> Str(type))
        @@ ("data" :> Map("password" :> Str("cGFzcw=="))))

JobObject(name, namespace) ==
  Map(("apiVersion" :> Str("batch/v1")) @@ ("kind" :> Str("Job"))
        @@ ("metadata" :> ObjectMeta(name, namespace))
        @@ ("spec" :> Map("template" :> PodTemplate))
        @@ ("status" :> Map("succeeded" :> Num("1"))))

VolumeObject(name) ==
  Map(("apiVersion" :> Str("v1")) @@ ("kind" :> Str("PersistentVolume"))
        @@ ("metadata" :> ObjectMeta(name, ""))
        @@ ("spec" :> Map(("capacity" :> Str("1Gi"))
                            @@ ("claimRef" :> Map("name" :> Str("data")))))
        @@ ("status" :> Map("phase" :> Str("Bound"))))

\* the objects of each (namespace, kind) pair; namespace "" is the cluster scope
ClusterContent(namespace, resType) ==
  CASE namespace = "prod" /\ resType = "secrets" ->
         <<SecretObject("default-token-x7", "prod",
                        "kubernetes.io/service-account-token"),
           SecretObject("db-password", "prod", "Opaque")>>
    [] namespace = "dev" /\ resType = "secrets" ->
         <<SecretObject("default-token-q2", "dev",
                        "kubernetes.io/service-account-token")>>
    [] namespace = "kube-system" /\ resType = "secrets" ->
         <<SecretObject("bootstrap", "kube-system", "Opaque")>>
    [] namespace = "prod" /\ resType = "jobs" ->
         <<JobObject("migrate", "prod"), JobObject("report", "prod")>>
    [] namespace = "" /\ resType = "persistentvolumes" ->
         <<VolumeObject("pv-data")>>
    [] OTHER -> << >>

\* the subsequences of q
RECURSIVE SubSeqsOf(_)
SubSeqsOf(q) ==
  IF q = << >>
    THEN {<< >>}
    ELSE LET rest == SubSeqsOf(Tail(q))
         IN  rest \cup {<<Head(q)>> \o r : r \in rest}

\* what a list call can return when it succeeds: any part of the pair's objects
ListResults(namespace, resType) == SubSeqsOf(ClusterContent(namespace, resType))

\* the kind identifiers an explicit --type list is made of ("pods" is not in
\* the registry)
KindChoices == {"secrets", "jobs", "persistentvolumes", "pods"}

\* main.go 390-398: the explicit list, or the keys of resourceMap in the
\* order the range statement happens to yield them
ResourceTypeLists ==
  UNION {[1..n -> KindChoices] : n \in 1..MaxKinds}
    \cup {<<"configmaps", "deployments", "secrets", "services",
            "persistentvolumeclaims", "statefulsets", "horizontalpodautoscalers",
            "cronjobs", "jobs", "persistentvolumes", "serviceaccounts",
            "ingresses">>}

\* strings.Split(s, sep) for a separator of one character
RECURSIVE Split(_, _)
Split(s, sep) ==
  IF \E i \in 1..Len(s) : SubSeq(s, i, i) = sep
    THEN LET i == CHOOSE j \in 1..Len(s) :
                    /\ SubSeq(s, j, j) = sep
                    /\ \A k \in 1..(j - 1) : SubSeq(s, k, k) # sep
         IN  <<SubSeq(s, 1, i - 1)>> \o Split(SubSeq(s, i + 1, Len(s)), sep)
    ELSE <<s>>

\* the values of --exclude-namespaces; the first is the flag's default
SkipNamespacesStrs == {"kube-system", "dev,kube-system"}

\* main.go 325-333 and 366-370
Flags ==
  [namespace : {"all", "prod", "kube-system"},
   resourceTypes : ResourceTypeLists,
   skipNamespaces : {Split(str, ",") : str \in SkipNamespacesStrs},
   skipSecrets : BOOLEAN,
   skipClusterResources : BOOLEAN]

---------------------------------------------------------------------------
(* main, src/main.go 315-685 *)

\* one call to the cluster or the file system, or one printed line
Call(what, args) == [ev |-> "call", what |-> what, args |-> args]

Line(what, args) == [ev |-> "print", what |-> what, args |-> args]

nsName == targetNamespaces[nsIdx]

nsDir == Join(<<backupRoot>>, nsName)

globalDir == Join(<<backupRoot>>, "_global")

resType == flags.resourceTypes[kindIdx]

resInfo == resourceMap[resType]

\* resource.GetName()
GetName(resource) == StringAt(Get(resource.m, "metadata").m, "name")

\* A slip: the kind directory is left out of the file's path.
ResourcePathNoKindDir(scopeDir, kindPlural, name) ==
  Join(scopeDir, kindPlural \o "-" \o name \o ".yaml")

\* main.go 519 and 573-575 (625 and 652-654 in the cluster-scope pass)
ResourcePath(scopeDir, kindPlural, name) ==
  Join(Join(scopeDir, kindPlural), name \o ".yaml")

\* main.go 463-469
NamespaceDocument(name) ==
  Map(("apiVersion" :> Str("v1")) @@ ("kind" :> Str("Namespace"))
        @@ ("metadata" :> Map("name" :> Str(name))))

Init ==
  /\ FnIdle
  /\ flags \in Flags
  /\ pc = "startup"
  /\ targetNamespaces = << >>
  /\ nsIdx = 1
  /\ kindIdx = 1
  /\ resources = << >>
  /\ objIdx = 1
  /\ backupCount = 0
  /\ totalResources = 0
  /\ dirs = {}
  /\ files = NoFiles
  /\ out = << >>

\* main.go 342-378: the fatal preconditions
Startup ==
  /\ pc = "startup"
  /\ \E outcome \in {"ok", "no-config", "no-client", "no-root"} :
       IF outcome = "ok"
         THEN /\ dirs' = {<<backupRoot>>}
              /\ pc' = "namespaces"
              /\ out' = <<Call("mkdir", <<backupRoot>>)>>
         ELSE /\ dirs' = dirs
              /\ pc' = "exit"
              /\ out' = <<Line("fatal", <<outcome>>)>>
  /\ UNCHANGED <<fnVars, flags, targetNamespaces, nsIdx, kindIdx, resources,
                 objIdx, backupCount, totalResources, files>>

\* A slip: a name is only compared with the first entry of the exclusion list.
NotSkippedFirstOnly(names) ==
  SelectSeq(names, LAMBDA n : n # flags.skipNamespaces[1])

\* main.go 415-431: the enumerated names that are not excluded
NotSkipped(names) ==
  SelectSeq(names,
            LAMBDA n : \A i \in 1..Len(flags.skipNamespaces) :
                         n # flags.skipNamespaces[i])

\* main.go 401-439
ResolveNamespaces ==
  /\ pc = "namespaces"
  /\ IF flags.namespace = "all"
       THEN \E listed \in BOOLEAN :
              IF listed
                THEN /\ targetNamespaces' = NotSkipped(ClusterNamespaces)
                     /\ out' = <<Call("list", <<"namespaces", "", "ok">>)>>
                ELSE /\ targetNamespaces' = << >>
                     /\ out' = <<Call("list", <<"namespaces", "", "error">>),
                                 Line("namespaces-failed", << >>)>>
       ELSE /\ targetNamespaces' = <<flags.namespace>>
            /\ out' = << >>
  /\ pc' = "globalDir"
  /\ UNCHANGED <<fnVars, flags, nsIdx, kindIdx, resources, objIdx, backupCount,
                 totalResources, dirs, files>>

\* A slip: the _global directory is made whatever the configuration says.
MakeGlobalDirUnconditional ==
  /\ pc = "globalDir"
  /\ \E made \in BOOLEAN :
       IF made
         THEN /\ dirs' = dirs \cup {globalDir}
              /\ out' = <<Call("mkdir", globalDir)>>
         ELSE /\ dirs' = dirs
              /\ out' = <<Line("global-dir-failed", << >>)>>
  /\ pc' = "namespace"
  /\ UNCHANGED <<fnVars, flags, targetNamespaces, nsIdx, kindIdx, resources,
                 objIdx, backupCount, totalResources, files>>

\* main.go 441-451
MakeGlobalDir ==
  /\ pc = "globalDir"
  /\ IF flags.skipClusterResources
       THEN dirs' = dirs /\ out' = << >>
       ELSE \E made \in BOOLEAN :
              IF made
                THEN /\ dirs' = dirs \cup {globalDir}
                     /\ out' = <<Call("mkdir", globalDir)>>
                ELSE /\ dirs' = dirs
                     /\ out' = <<Line("global-dir-failed", << >>)>>
  /\ pc' = "namespace"
  /\ UNCHANGED <<fnVars, flags, targetNamespaces, nsIdx, kindIdx, resources,
                 objIdx, backupCount, totalResources, files>>

\* main.go 453-475: the namespace directory and its 00-namespace.yaml; the
\* result of that WriteFile is not looked at
EnterNamespace ==
  /\ pc = "namespace"
  /\ nsIdx <= Len(targetNamespaces)
  /\ \E made \in BOOLEAN, written \in BOOLEAN :
       IF made
         THEN /\ dirs' = dirs \cup {nsDir}
              /\ files' = IF written
                            THEN Put(files, Join(nsDir, "00-namespace.yaml"),
                                     NamespaceDocument(nsName))
                            ELSE files
              /\ out' = <<Call("mkdir", nsDir)>>
              /\ pc' = "access"
              /\ nsIdx' = nsIdx
         ELSE /\ written
              /\ dirs' = dirs
              /\ files' = files
              /\ out' = <<Line("namespace-dir-failed", <<nsName>>)>>
              /\ pc' = "namespace"
              /\ nsIdx' = nsIdx + 1
  /\ kindIdx' = 1
  /\ UNCHANGED <<fnVars, flags, targetNamespaces, resources, objIdx,
                 backupCount, totalResources>>

\* A slip: after the last kind the same namespace is entered again.
NextKindSameNamespace ==
  IF kindIdx < Len(flags.resourceTypes)
    THEN /\ kindIdx' = kindIdx + 1
         /\ nsIdx' = nsIdx
         /\ pc' = "access"
    ELSE /\ kindIdx' = 1
         /\ nsIdx' = nsIdx
         /\ pc' = "namespace"

\* the continue statements and the end of the body of the loop at main.go 476:
\* on to the next kind, or to the next namespace after the last kind
NextKind ==
  IF kindIdx < Len(flags.resourceTypes)
    THEN /\ kindIdx' = kindIdx + 1
         /\ nsIdx' = nsIdx
         /\ pc' = "access"
    ELSE /\ kindIdx' = 1
         /\ nsIdx' = nsIdx + 1
         /\ pc' = "namespace"

\* checkResourceAccess, main.go 287-313: the query and, when the query itself
\* fails, the line it prints
AccessCheck(namespace, answer) ==
  <<Call("access", <<resInfo.Resource, namespace, "list", answer>>)>>
    \o (IF answer = "error"
          THEN <<Line("access-check-failed", <<resInfo.Resource, namespace>>)>>
          ELSE << >>)

\* A slip: only a failed query stops the listing, the answer is not looked at.
AccessGrantedUnlessError(answer) == answer # "error"

\* A slip: a query that fails is taken for an allowed answer.
AccessGrantedUnlessDenied(answer) == answer # "denied"

\* checkResourceAccess, main.go 305-312: false when the query fails, else
\* the answer's Allowed field
AccessGranted(answer) == answer = "allowed"

\* A slip: the kind is compared with its singular name.
SkipSecretsGateSingular == flags.skipSecrets /\ resType = "secret"

\* main.go 490
SkipSecretsGate == flags.skipSecrets /\ resType = "secrets"

\* main.go 476-502: the gates of one kind in one namespace
CheckAccess ==
  /\ pc = "access"
  /\ IF resType \notin DOMAIN resourceMap
       THEN /\ out' = <<Line("unsupported-type", <<resType>>)>>
            /\ NextKind
       ELSE \E answer \in {"allowed", "denied", "error"} :
              IF ~AccessGranted(answer)
                THEN /\ out' = AccessCheck(nsName, answer)
                                 \o <<Line("no-permission", <<nsName, resInfo.Kind>>)>>
                     /\ NextKind
                ELSE IF SkipSecretsGate
                       THEN /\ out' = AccessCheck(nsName, answer)
                                        \o <<Line("skip-secrets", <<resInfo.Kind>>)>>
                            /\ NextKind
                       ELSE IF ~resInfo.Namespaced
                              THEN /\ out' = AccessCheck(nsName, answer)
                                       \o (IF flags.skipClusterResources
                                             THEN << >>
                                             ELSE <<Line("cluster-level",
                                                          <<resInfo.Kind>>)>>)
                                   /\ NextKind
                              ELSE /\ out' = AccessCheck(nsName, answer)
                                   /\ pc' = "list"
                                   /\ UNCHANGED <<nsIdx, kindIdx>>
  /\ UNCHANGED <<fnVars, flags, targetNamespaces, resources, objIdx,
                 backupCount, totalResources, dirs, files>>

\* main.go 504-516
ListResources ==
  /\ pc = "list"
  /\ \/ /\ out' = <<Call("list", <<resInfo.Resource, nsName, "error">>),
                    Line("list-failed", <<resInfo.Kind>>)>>
        /\ resources' = << >>
        /\ NextKind
     \/ \E items \in ListResults(nsName, resType) :
          /\ resources' = items
          /\ IF items = << >>
               THEN /\ out' = <<Call("list", <<resInfo.Resource, nsName, "ok">>)>>
                    /\ NextKind
               ELSE /\ out' = <<Call("list", <<resInfo.Resource, nsName, "ok">>),
                                Line("found", <<resInfo.Kind>>)>>
                    /\ pc' = "mkdir"
                    /\ UNCHANGED <<nsIdx, kindIdx>>
  /\ UNCHANGED <<fnVars, flags, targetNamespaces, objIdx, backupCount,
                 totalResources, dirs, files>>

\* main.go 525-535
FilterSecrets(items) ==
  IF resType = "secrets" THEN SelectSeq(items, ShouldBackupSecret) ELSE items

\* main.go 518-537: the kind directory, then the Secret filter
MakeResourceDir ==
  /\ pc = "mkdir"
  /\ \E made \in BOOLEAN :
       IF made
         THEN /\ dirs' = dirs \cup {Join(nsDir, resType)}
              /\ resources' = FilterSecrets(resources)
              /\ out' = <<Call("mkdir", Join(nsDir, resType))>>
                          \o (IF resType = "secrets"
                                THEN <<Line("filtered", <<resInfo.Kind>>)>>
                                ELSE << >>)
              /\ pc' = "write"
              /\ UNCHANGED <<nsIdx, kindIdx>>
         ELSE /\ dirs' = dirs
              /\ resources' = << >>
              /\ out' = <<Line("mkdir-failed", <<resType>>)>>
              /\ NextKind
  /\ objIdx' = 1
  /\ backupCount' = 0
  /\ UNCHANGED <<fnVars, flags, targetNamespaces, totalResources, files>>

\* main.go 538-582: one object of the pair; a failed WriteFile leaves no file
WriteResource ==
  /\ pc = "write"
  /\ objIdx <= Len(resources)
  /\ LET resource == resources[objIdx]
         o == CleanResource(resource)
         resourceYAML == Map(ResourceYAML(o.m, resType))
         fullPath == ResourcePath(nsDir, resType, GetName(resource))
     IN  \E outcome \in {"ok", "marshal-failed", "write-failed"} :
           IF outcome = "ok"
             THEN /\ files' = Put(files, fullPath, resourceYAML)
                  /\ backupCount' = backupCount + 1
                  /\ out' = <<Call("write", fullPath)>>
             ELSE /\ files' = files
                  /\ backupCount' = backupCount
                  /\ out' = <<Line(outcome, <<GetName(resource)>>)>>
  /\ objIdx' = objIdx + 1
  /\ UNCHANGED <<fnVars, flags, pc, targetNamespaces, nsIdx, kindIdx, resources,
                 totalResources, dirs>>

\* A slip: the tally adds the objects listed, not the objects written.
TallyListed ==
  /\ pc = "write"
  /\ objIdx > Len(resources)
  /\ totalResources' = totalResources + Len(resources)
  /\ out' = <<Line("backed-up", <<resInfo.Kind>>)>>
  /\ resources' = << >>
  /\ objIdx' = 1
  /\ backupCount' = 0
  /\ NextKind
  /\ UNCHANGED <<fnVars, flags, targetNamespaces, dirs, files>>

\* main.go 584-587
Tally ==
  /\ pc = "write"
  /\ objIdx > Len(resources)
  /\ totalResources' = totalResources + backupCount
  /\ out' = <<Line("backed-up", <<resInfo.Kind>>)>>
  /\ resources' = << >>
  /\ objIdx' = 1
  /\ backupCount' = 0
  /\ NextKind
  /\ UNCHANGED <<fnVars, flags, targetNamespaces, dirs, files>>

\* main.go 590-598, entered when the loop over the namespaces is over
EnterClusterPass ==
  /\ pc = "namespace"
  /\ nsIdx > Len(targetNamespaces)
  /\ IF flags.skipClusterResources
       THEN /\ dirs' = dirs
            /\ out' = << >>
            /\ pc' = "report"
       ELSE \E made \in BOOLEAN :
              IF made
                THEN /\ dirs' = dirs \cup {globalDir}
                     /\ out' = <<Call("mkdir", globalDir)>>
                     /\ pc' = "clusterAccess"
                ELSE /\ dirs' = dirs
                     /\ out' = <<Line("global-dir-failed", << >>)>>
                     /\ pc' = "report"
  /\ kindIdx' = 1
  /\ UNCHANGED <<fnVars, flags, targetNamespaces, nsIdx, resources, objIdx,
                 backupCount, totalResources, files>>

\* the continue statements and the end of the body of the loop at main.go 599
NextClusterKind ==
  IF kindIdx < Len(flags.resourceTypes)
    THEN /\ kindIdx' = kindIdx + 1
         /\ pc' = "clusterAccess"
    ELSE /\ kindIdx' = 1
         /\ pc' = "report"

\* main.go 599-609
CheckClusterAccess ==
  /\ pc = "clusterAccess"
  /\ IF resType \notin DOMAIN resourceMap \/ resInfo.Namespaced
       THEN /\ out' = << >>
            /\ NextClusterKind
       ELSE \E answer \in {"allowed", "denied", "error"} :
              IF ~AccessGranted(answer)
                THEN /\ out' = AccessCheck("", answer)
                                 \o <<Line("no-permission", <<resInfo.Kind>>)>>
                     /\ NextClusterKind
                ELSE /\ out' = AccessCheck("", answer)
                     /\ pc' = "clusterList"
                     /\ kindIdx' = kindIdx
  /\ UNCHANGED <<fnVars, flags, targetNamespaces, nsIdx, resources, objIdx,
                 backupCount, totalResources, dirs, files>>

\* main.go 611-623
ListClusterResources ==
  /\ pc = "clusterList"
  /\ \/ /\ out' = <<Call("list", <<resInfo.Resource, "", "error">>),
                    Line("list-failed", <<resInfo.Kind>>)>>
        /\ resources' = << >>
        /\ NextClusterKind
     \/ \E items \in ListResults("", resType) :
          /\ resources' = items
          /\ IF items = << >>
               THEN /\ out' = <<Call("list", <<resInfo.Resource, "", "ok">>)>>
                    /\ NextClusterKind
               ELSE /\ out' = <<Call("list", <<resInfo.Resource, "", "ok">>),
                                Line("found", <<resInfo.Kind>>)>>
                    /\ pc' = "clusterMkdir"
                    /\ kindIdx' = kindIdx
  /\ UNCHANGED <<fnVars, flags, targetNamespaces, nsIdx, objIdx, backupCount,
                 totalResources, dirs, files>>

\* main.go 625-631
MakeClusterResourceDir ==
  /\ pc = "clusterMkdir"
  /\ \E made \in BOOLEAN :
       IF made
         THEN /\ dirs' = dirs \cup {Join(globalDir, resType)}
              /\ resources' = resources
              /\ out' = <<Call("mkdir", Join(globalDir, resType))>>
              /\ pc' = "clusterWrite"
              /\ kindIdx' = kindIdx
         ELSE /\ dirs' = dirs
              /\ resources' = << >>
              /\ out' = <<Line("mkdir-failed", <<resType>>)>>
              /\ NextClusterKind
  /\ objIdx' = 1
  /\ backupCount' = 0
  /\ UNCHANGED <<fnVars, flags, targetNamespaces, nsIdx, totalResources, files>>

\* main.go 632-661
WriteClusterResource ==
  /\ pc = "clusterWrite"
  /\ objIdx <= Len(resources)
  /\ LET resource == resources[objIdx]
         o == CleanResource(resource)
         resourceYAML == Map(GlobalResourceYAML(o.m))
         fullPath == ResourcePath(globalDir, resType, GetName(resource))
     IN  \E outcome \in {"ok", "marshal-failed", "write-failed"} :
           IF outcome = "ok"
             THEN /\ files' = Put(files, fullPath, resourceYAML)
                  /\ backupCount' = backupCount + 1
                  /\ out' = <<Call("write", fullPath)>>
             ELSE /\ files' = files
                  /\ backupCount' = backupCount
                  /\ out' = <<Line(outcome, <<GetName(resource)>>)>>
  /\ objIdx' = objIdx + 1
  /\ UNCHANGED <<fnVars, flags, pc, targetNamespaces, nsIdx, kindIdx, resources,
                 totalResources, dirs>>

\* main.go 663-664
TallyCluster ==
  /\ pc = "clusterWrite"
  /\ objIdx > Len(resources)
  /\ totalResources' = totalResources + backupCount
  /\ out' = <<Line("backed-up", <<resInfo.Kind>>)>>
  /\ resources' = << >>
  /\ objIdx' = 1
  /\ backupCount' = 0
  /\ NextClusterKind
  /\ UNCHANGED <<fnVars, flags, targetNamespaces, nsIdx, dirs, files>>

\* main.go 669-684: the completion report
Complete ==
  /\ pc = "report"
  /\ pc' = "done"
  /\ out' = <<Line("completed", <<backupRoot>>)>>
  /\ UNCHANGED <<fnVars, flags, targetNamespaces, nsIdx, kindIdx, resources,
                 objIdx, backupCount, totalResources, dirs, files>>

Next ==
  \/ Startup
  \/ ResolveNamespaces
  \/ MakeGlobalDir
  \/ EnterNamespace
  \/ CheckAccess
  \/ ListResources
  \/ MakeResourceDir
  \/ WriteResource
  \/ Tally
  \/ EnterClusterPass
  \/ CheckClusterAccess
  \/ ListClusterResources
  \/ MakeClusterResourceDir
  \/ WriteClusterResource
  \/ TallyCluster
  \/ Complete

Spec == Init /\ [][Next]_vars

---------------------------------------------------------------------------
(* Properties of the run, checked under Spec *)

\* the files that hold an object (the others are the 00-namespace.yaml files)
ObjectFiles == {p \in DOMAIN files : Len(p) = 4}

Visited(namespace) ==
  \E i \in 1..Len(targetNamespaces) : targetNamespaces[i] = namespace

\* every file is <backupRoot>/<namespace>/00-namespace.yaml or
\* <backupRoot>/<scope>/<kind-plural>/<name>.yaml, with <kind-plural> the
\* registry key of the document's kind, <name> the document's name and <scope>
\* the object's namespace, or _global for a cluster-scoped kind
LayoutOK ==
  \A p \in DOMAIN files :
    \/ /\ Len(p) = 3
       /\ p[1] = backupRoot
       /\ Visited(p[2])
       /\ p[3] = "00-namespace.yaml"
    \/ /\ Len(p) = 4
       /\ p[1] = backupRoot
       /\ p[3] \in DOMAIN resourceMap
       /\ files[p].m["kind"] = Str(resourceMap[p[3]].Kind)
       /\ p[4] = StringAt(files[p].m["metadata"].m, "name") \o ".yaml"
       /\ IF resourceMap[p[3]].Namespaced
            THEN /\ Visited(p[2])
                 /\ p[2] = StringAt(files[p].m["metadata"].m, "namespace")
            ELSE p[2] = "_global"

\* the step writes the file of the current object
WritesObject ==
  /\ pc \in {"write", "clusterWrite"}
  /\ objIdx <= Len(resources)
  /\ backupCount' = backupCount + 1

\* where the claim puts the file of the current object
ExpectedPath ==
  <<backupRoot, IF pc = "write" THEN nsName ELSE "_global", resType,
    StringAt(resources[objIdx].m["metadata"].m, "name") \o ".yaml">>

\* C7: every object file is at <backupRoot>/<scope>/<kind-plural>/<name>.yaml,
\* and a write puts exactly the current object's file there: a path that
\* already holds a file is replaced and the set of files does not grow.
C7_Layout ==
  [][/\ LayoutOK'
     /\ WritesObject =>
          /\ DOMAIN files' = DOMAIN files \cup {ExpectedPath}
          /\ \A q \in DOMAIN files \ {ExpectedPath} : files'[q] = files[q]
          /\ ExpectedPath \in DOMAIN files => Cardinality(DOMAIN files') =
                                                Cardinality(DOMAIN files)]_vars

\* The run is over and more writes were counted than object files exist: a
\* file under the namespace prod was written a second time.
C7_Witness ==
  /\ pc = "done"
  /\ Cardinality(ObjectFiles) < totalResources
  /\ \A p \in ObjectFiles : p[2] = "prod"
  /\ ObjectFiles # {}

\* C8: with skip-secrets set no directory and no file has "secrets" in its
\* path, and no file holds a Secret.
C8_SkipSecrets ==
  flags.skipSecrets =>
    /\ \A d \in dirs : \A i \in 1..Len(d) : d[i] # "secrets"
    /\ \A p \in DOMAIN files :
         /\ \A i \in 1..Len(p) : p[i] # "secrets"
         /\ Get(files[p].m, "kind") # Str("Secret")

\* A run for the kind list ["secrets"] with skip-secrets set has visited
\* the namespace prod and is over.
C8_Witness ==
  /\ pc = "done"
  /\ flags.skipSecrets
  /\ flags.resourceTypes = <<"secrets">>
  /\ <<backupRoot, "prod">> \in dirs

\* the step is the access check of the current pair, and the answer is denied
AccessDenied ==
  /\ pc = "access"
  /\ resType \in DOMAIN resourceMap
  /\ \E i \in 1..Len(out') :
       out'[i] = Call("access", <<resInfo.Resource, nsName, "list", "denied">>)

\* C9: when the access check of a (namespace, kind) pair answers denied, the
\* step issues no list call, prints the warning that names the namespace and
\* the kind, changes no file, no directory and no count, and hands over to
\* the next kind of the same namespace (to the next namespace after the last
\* kind); a list call is only ever issued right after an allowed answer.
C9_DeniedSkipsPair ==
  [][/\ AccessDenied =>
          /\ \A i \in 1..Len(out') : out'[i].what # "list"
          /\ \E i \in 1..Len(out') :
               out'[i] = Line("no-permission", <<nsName, resInfo.Kind>>)
          /\ UNCHANGED <<flags, targetNamespaces, resources, objIdx, backupCount,
                         totalResources, dirs, files>>
          /\ IF kindIdx < Len(flags.resourceTypes)
               THEN pc' = "access" /\ kindIdx' = kindIdx + 1 /\ nsIdx' = nsIdx
               ELSE pc' = "namespace" /\ nsIdx' = nsIdx + 1
     /\ pc' = "list" =>
          /\ pc = "access"
          /\ out' = <<Call("access", <<resInfo.Resource, nsName, "list", "allowed">>)>>
    ]_vars

\* The check of jobs in prod has just been denied, and secrets is next.
C9_Witness ==
  /\ pc = "access"
  /\ flags.resourceTypes = <<"jobs", "secrets">>
  /\ nsName = "prod"
  /\ kindIdx = 2
  /\ out = <<Call("access", <<"jobs", "prod", "list", "denied">>),
             Line("no-permission", <<"prod", "Job">>)>>

\* C10: the kind directory of a pair is not created when the pair has no
\* object to write; in particular not when every listed Secret is rejected
\* by the eligibility filter.
C10_NoEmptyKindDir ==
  [][(pc = "mkdir" /\ FilterSecrets(resources) = << >>) => dirs' = dirs]_vars

---------------------------------------------------------------------------
(* The access gate and the listings *)

\* the list calls for a (scope, kind) pair among the calls cs; the enumeration
\* of the namespaces is not one of them
PairLists(cs) ==
  {i \in 1..Len(cs) : /\ cs[i].ev = "call"
                      /\ cs[i].what = "list"
                      /\ cs[i].args[1] # "namespaces"}

\* the scope of the pair at hand: the namespace, or "" in the cluster pass
Scope == IF pc \in {"access", "list"} THEN nsName ELSE ""

\* the access answers among the calls cs for the pair at hand
Answers(cs) ==
  {cs[i].args[4] : i \in {j \in 1..Len(cs) :
     /\ cs[j].ev = "call"
     /\ cs[j].what = "access"
     /\ cs[j].args[1] = resInfo.Resource
     /\ cs[j].args[2] = Scope}}

\* C11: in both passes every list call for a (scope, kind) pair is issued by
\* the step that directly follows an access check of the same kind and scope
\* that answered allowed, and a step whose access check answers denied or
\* fails issues no list call and does not lead to the listing of the pair.
C11_ListAfterAllowed ==
  [][/\ PairLists(out') # {} =>
          /\ pc \in {"list", "clusterList"}
          /\ out = <<Call("access", <<resInfo.Resource, Scope, "list", "allowed">>)>>
          /\ \A i \in PairLists(out') :
               /\ out'[i].args[1] = resInfo.Resource
               /\ out'[i].args[2] = Scope
     /\ (pc \in {"access", "clusterAccess"} /\ resType \in DOMAIN resourceMap
           /\ Answers(out') \cap {"denied", "error"} # {}) =>
          /\ PairLists(out') = {}
          /\ pc' \notin {"list", "clusterList"}
          /\ UNCHANGED <<resources, dirs, files, totalResources>>
    ]_vars

\* The cluster pass has just listed the persistent volumes.
C11_Witness ==
  /\ pc = "clusterMkdir"
  /\ out[1] = Call("list", <<"persistentvolumes", "", "ok">>)

---------------------------------------------------------------------------
(* Termination *)

\* the command lines of the runs followed to their end
FairFlags ==
  [namespace : {"all", "prod"},
   resourceTypes : {<<"secrets", "persistentvolumes">>, <<"jobs", "pods">>},
   skipNamespaces : {<<"kube-system">>},
   skipSecrets : BOOLEAN,
   skipClusterResources : BOOLEAN]

InitFair == Init /\ flags \in FairFlags

\* main is one sequential process: a step that can be taken is taken
FairSpec == InitFair /\ [][Next]_vars /\ WF_vars(Next)

\* the fatal preconditions are behind: the clients and the backup root exist
Started == pc \notin {"startup", "exit"}

Printed(what) == \E i \in 1..Len(out) : out[i] = Line(what, << >>)

\* C12: once the clients and the backup root exist the run reaches the
\* completion report and never exits before it, whatever fails on the way;
\* and after a failed enumeration of the namespaces the cluster-scope pass
\* is still entered (its _global directory is attempted) unless the caller
\* switched the cluster resources off.
C12_Terminates ==
  /\ Started ~> (pc = "done" /\ out = <<Line("completed", <<backupRoot>>)>>)
  /\ [](Started => [](pc # "exit"))
  /\ (pc = "globalDir" /\ Printed("namespaces-failed")
        /\ ~flags.skipClusterResources)
       ~> (pc \in {"clusterAccess", "report"} /\ nsIdx = 1
             /\ (pc = "report" => Printed("global-dir-failed")))

\* The enumeration of the namespaces failed, and the run is over after a
\* cluster-scope pass that wrote the persistent volume.
C12_Witness ==
  /\ pc = "done"
  /\ flags.namespace = "all"
  /\ targetNamespaces = << >>
  /\ <<backupRoot, "_global", "persistentvolumes", "pv-data.yaml">> \in DOMAIN files

---------------------------------------------------------------------------
(* The namespaces of the run *)

Range(q) == {q[i] : i \in 1..Len(q)}

\* the namespace a directory or a file lies under, "" for the backup root
NamespaceOf(path) == IF Len(path) >= 2 THEN path[2] ELSE ""

\* C13: for the namespace "all" the visited namespaces are exactly the
\* enumerated ones that the exclusion list does not name, and nothing is ever
\* created under an excluded namespace; for a single namespace the visited
\* namespaces are exactly that one, excluded or not; once resolved, the
\* visited namespaces do not change and every directory and file lies under
\* one of them or under _global.
C13_Scope ==
  [][/\ pc = "namespaces" =>
          IF flags.namespace = "all"
            THEN /\ out'[1] = Call("list", <<"namespaces", "", "ok">>) =>
                      /\ Range(targetNamespaces') =
                           Range(ClusterNamespaces) \ Range(flags.skipNamespaces)
                      /\ Len(targetNamespaces') = Cardinality(Range(targetNamespaces'))
                 /\ out'[1] = Call("list", <<"namespaces", "", "error">>) =>
                      targetNamespaces' = << >>
            ELSE targetNamespaces' = <<flags.namespace>>
     /\ pc \notin {"startup", "namespaces"} => targetNamespaces' = targetNamespaces
     /\ \A path \in dirs' \cup DOMAIN files' :
          /\ NamespaceOf(path) \in Range(targetNamespaces') \cup {"", "_global"}
          /\ flags.namespace = "all" =>
               NamespaceOf(path) \notin Range(flags.skipNamespaces)
    ]_vars

\* A run over all namespaces with two excluded names is over and has written
\* under prod.
C13_Witness ==
  /\ pc = "done"
  /\ flags.namespace = "all"
  /\ flags.skipNamespaces = <<"dev", "kube-system">>
  /\ <<backupRoot, "prod", "secrets", "db-password.yaml">> \in DOMAIN files

---------------------------------------------------------------------------
(* The written document and the sanitizer's kind branches, checked under
   SpecClean *)

\* what the document is to hold under key k of the sanitized object
SanitizedValue(k) ==
  IF k = "data" /\ StringAt(cleaned.m, "kind") = "ConfigMap" /\ IsMapAt(cleaned.m, k)
    THEN processStringMapValues(cleaned.m[k])
    ELSE cleaned.m[k]

\* C14: the document has exactly the top-level keys of the sanitized object,
\* with the same values (the data of a ConfigMap text-normalized).
C14_DocumentIsSanitized ==
  step = "document" =>
    /\ DOMAIN document.m = DOMAIN cleaned.m
    /\ \A k \in DOMAIN cleaned.m \cap DOMAIN document.m :
         document.m[k] = SanitizedValue(k)

\* the input is a map of the given kind whose spec is a map
KindWithSpec(kinds) ==
  /\ obj.tag = "map"
  /\ StringAt(obj.m, "kind") \in kinds
  /\ IsMapAt(obj.m, "spec")

\* the key k of the input's spec is in the result's spec with the same value
SpecKeyKept(k) ==
  Has(obj.m["spec"].m, k) =>
    /\ IsMapAt(cleaned.m, "spec")
    /\ Has(cleaned.m["spec"].m, k)
    /\ cleaned.m["spec"].m[k] = obj.m["spec"].m[k]

\* C15: the spec of a cleaned Deployment or StatefulSet still has the
\* selector and the replicas of the input, with their input values.
C15_SelectorAndReplicasKept ==
  (step = "cleaned" /\ KindWithSpec({"Deployment", "StatefulSet"})) =>
    SpecKeyKept("selector") /\ SpecKeyKept("replicas")

\* C16: the spec of a cleaned PersistentVolumeClaim has no volumeName.
C16_NoVolumeName ==
  (step = "cleaned" /\ KindWithSpec({"PersistentVolumeClaim"})) =>
    (IsMapAt(cleaned.m, "spec") => ~Has(cleaned.m["spec"].m, "volumeName"))

\* the value under the keys of path, starting from the map value v; Nil when
\* the path leaves the maps
RECURSIVE At(_, _)
At(v, path) ==
  IF path = << >>
    THEN v
    ELSE IF v.tag = "map" /\ Has(v.m, Head(path))
           THEN At(v.m[Head(path)], Tail(path))
           ELSE Nil

\* where a pod template's metadata is embedded
TemplateMetadataPaths ==
  {<<"spec", "template", "metadata">>,
   <<"spec", "jobTemplate", "spec", "template", "metadata">>}

\* metadata that went through the normalization: no server field, no empty
\* annotations or labels map
Normalized(md) ==
  /\ \A f \in ServerFields : ~Has(md, f)
  /\ \A f \in {"annotations", "labels"} : IsMapAt(md, f) => md[f].m # NoMap

\* C17: the metadata of an embedded pod template is normalized in the result.
C17_TemplateMetadata ==
  (step = "cleaned" /\ cleaned.tag = "map") =>
    \A path \in TemplateMetadataPaths :
      At(cleaned, path).tag = "map" => Normalized(At(cleaned, path).m)

\* the kinds the sanitizer is to treat specially
RecognizedKinds ==
  {"Service", "Deployment", "StatefulSet", "PersistentVolume",
   "PersistentVolumeClaim", "ServiceAccount"}

\* C18: for an object of any other kind, or of no kind, every top-level key
\* but status and metadata is in the result exactly as in the input, and the
\* result has no other key.
C18_OtherKindsPassThrough ==
  (step = "cleaned" /\ obj.tag = "map"
     /\ StringAt(obj.m, "kind") \notin RecognizedKinds) =>
    /\ DOMAIN cleaned.m \ {"metadata"} = DOMAIN obj.m \ {"status", "metadata"}
    /\ \A k \in DOMAIN obj.m \ {"status", "metadata"} :
         Has(cleaned.m, k) /\ cleaned.m[k] = obj.m[k]

---------------------------------------------------------------------------
(* The order of the gates and the write loop, checked under Spec *)

\* the pair at hand in the namespace pass is one the pass is to skip without
\* asking: a cluster-scoped kind, or secrets with skip-secrets set
SkippedUnasked ==
  /\ pc = "access"
  /\ resType \in DOMAIN resourceMap
  /\ \/ ~resInfo.Namespaced
     \/ flags.skipSecrets /\ resType = "secrets"

\* C19: in a namespace no access query is made and no denied-access warning
\* is printed for a cluster-scoped kind, nor for secrets when skip-secrets
\* is set.
C19_SkipsBeforeAccess ==
  [][SkippedUnasked =>
       \A i \in 1..Len(out') :
         /\ ~(out'[i].ev = "call" /\ out'[i].what = "access")
         /\ ~(out'[i].ev = "print" /\ out'[i].what = "no-permission")]_vars

\* the step handles one object of the pair at hand
HandlesObject ==
  /\ pc \in {"write", "clusterWrite"}
  /\ objIdx <= Len(resources)

\* the step wrote the object's file
Wrote == \E i \in 1..Len(out') : out'[i] = Call("write", ExpectedPath)

\* the step closes the pair at hand
ClosesPair ==
  /\ pc \in {"write", "clusterWrite"}
  /\ objIdx > Len(resources)

\* C20: the step that handles one object of a pair either writes its file and
\* counts one, or fails, prints, and changes neither a file nor a count; in
\* both cases the pass goes on with the next object of the same list. The
\* pair's count never exceeds the objects handled, and closing the pair adds
\* exactly the pair's count to the total.
C20_OneObjectAtATime ==
  [][/\ HandlesObject =>
          /\ pc' = pc /\ resources' = resources /\ objIdx' = objIdx + 1
          /\ totalResources' = totalResources /\ dirs' = dirs
          /\ IF Wrote
               THEN /\ backupCount' = backupCount + 1
                    /\ ExpectedPath \in DOMAIN files'
               ELSE /\ backupCount' = backupCount
                    /\ files' = files
                    /\ out'[1].ev = "print"
                    /\ out'[1].what \in {"marshal-failed", "write-failed"}
          /\ backupCount' <= objIdx
     /\ ClosesPair =>
          /\ totalResources' = totalResources + backupCount
          /\ files' = files
    ]_vars

\* In prod the first Job failed and the second one was written.
C20_Witness ==
  /\ pc = "write"
  /\ nsName = "prod"
  /\ flags.resourceTypes[1] = "jobs"
  /\ kindIdx = 1
  /\ objIdx = 3
  /\ backupCount = 1
  /\ <<backupRoot, "prod", "jobs", "migrate.yaml">> \notin DOMAIN files
  /\ <<backupRoot, "prod", "jobs", "report.yaml">> \in DOMAIN files

---------------------------------------------------------------------------
(* The two scopes *)

\* the registry keys of the cluster-scoped kinds
ClusterKinds == {k \in DOMAIN resourceMap : ~resourceMap[k].Namespaced}

\* the document is an object of a cluster-scoped kind
ClusterScoped(doc) ==
  \E k \in ClusterKinds : Get(doc.m, "kind") = Str(resourceMap[k].Kind)

\* the paths under the _global directory
UnderGlobal(paths) == {path \in paths : NamespaceOf(path) = "_global"}

\* C21: an object of a cluster-scoped kind is listed and written by the
\* cluster-scope pass only, and its file lies under _global/<kind-plural>;
\* an object of a namespaced kind is listed and written by the namespace
\* pass only, and never lies under _global; and with the cluster resources
\* switched off there is no _global directory, nothing under it, and no
\* cluster-scoped kind is listed or written.
C21_TwoScopes ==
  [][/\ \A path \in ObjectFiles' :
          /\ ClusterScoped(files'[path]) <=> NamespaceOf(path) = "_global"
          /\ ClusterScoped(files'[path]) => path[3] \in ClusterKinds
     /\ files' # files =>
          \/ pc = "namespace"
          \/ pc = "write" /\ resType \notin ClusterKinds
                /\ UnderGlobal(DOMAIN files') = UnderGlobal(DOMAIN files)
          \/ pc = "clusterWrite" /\ resType \in ClusterKinds
                /\ DOMAIN files' \ UnderGlobal(DOMAIN files') =
                     DOMAIN files \ UnderGlobal(DOMAIN files)
     /\ PairLists(out') # {} =>
          IF resType \in ClusterKinds
            THEN pc = "clusterList" /\ \A i \in PairLists(out') : out'[i].args[2] = ""
            ELSE pc = "list" /\ \A i \in PairLists(out') : out'[i].args[2] = nsName
     /\ flags.skipClusterResources =>
          /\ UnderGlobal(dirs' \cup DOMAIN files') = {}
          /\ \A path \in ObjectFiles' : ~ClusterScoped(files'[path])
          /\ pc' \notin {"clusterAccess", "clusterList", "clusterMkdir", "clusterWrite"}
          /\ PairLists(out') # {} => resType \notin ClusterKinds
    ]_vars

\* A run for secrets and persistent volumes is over: the volume's file lies
\* under _global and a Secret's file under prod.
C21_Witness ==
  /\ pc = "done"
  /\ ~flags.skipClusterResources
  /\ <<backupRoot, "_global", "persistentvolumes", "pv-data.yaml">> \in DOMAIN files
  /\ <<backupRoot, "prod", "secrets", "db-password.yaml">> \in DOMAIN files

---------------------------------------------------------------------------
(* The reported total *)

\* C22: when the run is over the reported total is the number of object
\* files under the backup root, whatever the kind list, one that names a
\* kind twice included.
C22_TotalIsFiles ==
  pc = "done" => totalResources = Cardinality(ObjectFiles)

====
